---------------------------- MODULE Spec2Model ----------------------------
(* App Feedback Management System (AFMS): the ingestion endpoint             *)
(* POST /api/v1/feedback (API key authentication, rate limiting, validation, *)
(* insert), the apps / feedbacks tables, API key issue and rotation, and the *)
(* status workflow of the dashboard.                                         *)
EXTENDS Integers, Sequences, FiniteSets, TLC

(***************************************************************************)
(* Bounds of the model.                                                    *)
(***************************************************************************)
MaxApps == 2
MaxKeys == 3
MaxFeedbacks == 2
MaxRequests == 2
MaxAdminRequests == 2
Threshold == 1

(***************************************************************************)
(* Program constants.                                                      *)
(***************************************************************************)
MinRating == 1
MaxRating == 5

AppIds == 1..MaxApps
Keys == 1..MaxKeys
NoKey == 0
NoApp == 0
NoValue == <<>>
Null == <<>>
Some(v) == <<v>>
NoResponse == "none"

Requests == 1..MaxRequests
AdminRequests == 1..MaxAdminRequests

Categories == {"bug", "feature", "general", "ui/ux"}

DefaultStatusOther == "in_progress"
DefaultStatus == "pending"

Statuses == {"pending", "in_progress", "resolved", "ignored"}

(***************************************************************************)
(* JSON columns: text("...", { mode: "json" }) stores JSON.stringify of    *)
(* the value and reads it back with JSON.parse.  A JSON value is a flat    *)
(* object, a sequence of <<key, value>> members; its text is a sequence of *)
(* tokens.  An optional value is <<>> when absent (NULL in a column) and   *)
(* <<v>> when present.                                                     *)
(***************************************************************************)
RECURSIVE StringifyMembers(_)
StringifyMembers(ms) ==
    IF ms = <<>> THEN <<>>
    ELSE IF Len(ms) = 1 THEN <<ms[1][1], ":", ms[1][2]>>
    ELSE <<ms[1][1], ":", ms[1][2], ",">> \o StringifyMembers(Tail(ms))

JsonStringify(v) == <<"{">> \o StringifyMembers(v) \o <<"}">>

RECURSIVE ParseMembers(_, _)
ParseMembers(toks, i) ==
    IF toks[i] = "}" THEN <<>>
    ELSE IF toks[i] = "," THEN ParseMembers(toks, i + 1)
    ELSE <<(<<toks[i], toks[i + 2]>>)>> \o ParseMembers(toks, i + 3)

JsonParse(toks) == ParseMembers(toks, 2)

ToJsonColumnOther(v) == IF v = NoValue THEN Null ELSE Some(JsonStringify(<<>>))
ToJsonColumn(v) == IF v = NoValue THEN Null ELSE Some(JsonStringify(v[1]))
FromJsonColumn(c) == IF c = Null THEN NoValue ELSE Some(JsonParse(c[1]))

(***************************************************************************)
(* Request bodies sent by the mobile apps.                                 *)
(***************************************************************************)
Body(w, r, c, d) == [wellFormed |-> w, rating |-> r, category |-> c, deviceInfo |-> d]

EmptyBody == Body(TRUE, NoValue, NoValue, NoValue)

FullBody == Body(TRUE, Some(5), Some("bug"), Some(<<(<<"os", "17">>), (<<"ver", "2">>)>>))
SparseBody == Body(TRUE, NoValue, Some("ui/ux"), NoValue)
BadRatingBody == Body(TRUE, Some(6), Some("bug"), NoValue)
BadCategoryBody == Body(TRUE, Some(1), Some("spam"), NoValue)
BadBothBody == Body(TRUE, Some(0), Some("spam"), Some(<<>>))
MalformedBody == Body(FALSE, NoValue, NoValue, NoValue)

Payloads ==
    {FullBody, SparseBody, BadRatingBody, BadCategoryBody, BadBothBody, MalformedBody}

RatingInRangeOther(r) == r >= MinRating
RatingInRange(r) == r >= MinRating /\ r <= MaxRating

RatingOk(r) == r = NoValue \/ RatingInRange(r[1])
CategoryOk(c) == c = NoValue \/ c[1] \in Categories

FailingFields(p) ==
    (IF RatingOk(p.rating) THEN {} ELSE {"rating"})
    \cup (IF CategoryOk(p.category) THEN {} ELSE {"category"})

ValidPayload(p) == p.wellFormed /\ FailingFields(p) = {}

VARIABLES apps, nextKey, feedbacks, rateCount, req, adm, limited

vars == <<apps, nextKey, feedbacks, rateCount, req, adm, limited>>

(***************************************************************************)
(* apps table: apps[a] is the api_key of application a, NoKey when the     *)
(* application is not registered.                                          *)
(***************************************************************************)
Registered == {a \in AppIds : apps[a] # NoKey}
ActiveKeys == {apps[a] : a \in Registered}
IssuedKeys == 1..(nextKey - 1)
RotatedOutKeys == IssuedKeys \ ActiveKeys

GenerateApiKeyOther == IF nextKey > 1 THEN nextKey - 1 ELSE nextKey
GenerateApiKey == nextKey

CreateApp(a) ==
    /\ apps[a] = NoKey
    /\ nextKey <= MaxKeys
    /\ apps' = [apps EXCEPT ![a] = GenerateApiKey]
    /\ nextKey' = nextKey + 1
    /\ UNCHANGED <<feedbacks, rateCount, req, adm, limited>>

RotateKey(a) ==
    /\ apps[a] # NoKey
    /\ nextKey <= MaxKeys
    /\ apps' = [apps EXCEPT ![a] = GenerateApiKey]
    /\ nextKey' = nextKey + 1
    /\ UNCHANGED <<feedbacks, rateCount, req, adm, limited>>

(***************************************************************************)
(* POST /api/v1/feedback.  A request passes the middleware in order (API   *)
(* key authentication, rate limiting, validation) and then the insert;     *)
(* each stage awaits the store, so stages of concurrent requests           *)
(* interleave.  limited is a history variable: the applications that have  *)
(* been answered TooManyRequests.                                          *)
(***************************************************************************)
IdleRequest == [pc |-> "idle", key |-> NoKey, payload |-> EmptyBody, app |-> NoApp,
                resp |-> NoResponse, fields |-> {}, id |-> 0]

InFlight == {r \in Requests : req[r].pc \in {"auth", "rate", "validate"}}

Receive(r, k, p) ==
    /\ req[r].pc \in {"idle", "done"}
    /\ ValidPayload(p) =>
         Len(feedbacks) + Cardinality({q \in InFlight : ValidPayload(req[q].payload)})
            < MaxFeedbacks
    /\ req' = [req EXCEPT ![r] = [IdleRequest EXCEPT !.pc = "auth", !.key = k, !.payload = p]]
    /\ UNCHANGED <<apps, nextKey, feedbacks, rateCount, adm, limited>>

Respond(r, status) == [req[r] EXCEPT !.pc = "done", !.resp = status]

AfterAuthOther == "validate"
AfterAuth == "rate"

ResolveAppOther(k) ==
    {a \in Registered : k \in IssuedKeys /\ (apps[a] = k \/ k \in RotatedOutKeys)}
ResolveApp(k) == {a \in AppIds : k # NoKey /\ apps[a] = k}

Authenticate(r) ==
    /\ req[r].pc = "auth"
    /\ IF ResolveApp(req[r].key) = {}
       THEN req' = [req EXCEPT ![r] = Respond(r, "Unauthorized")]
       ELSE \E a \in ResolveApp(req[r].key) :
               req' = [req EXCEPT ![r] = [req[r] EXCEPT !.pc = AfterAuth, !.app = a]]
    /\ UNCHANGED <<apps, nextKey, feedbacks, rateCount, adm, limited>>

WithinLimitOther(n) == n <= Threshold
WithinLimit(n) == n < Threshold

RateLimit(r) ==
    /\ req[r].pc = "rate"
    /\ IF WithinLimit(rateCount[req[r].app])
       THEN /\ rateCount' = [rateCount EXCEPT ![req[r].app] = @ + 1]
            /\ req' = [req EXCEPT ![r] = [req[r] EXCEPT !.pc = "validate"]]
            /\ UNCHANGED limited
       ELSE /\ req' = [req EXCEPT ![r] = Respond(r, "TooManyRequests")]
            /\ limited' = limited \cup {req[r].app}
            /\ UNCHANGED rateCount
    /\ UNCHANGED <<apps, nextKey, feedbacks, adm>>

WindowElapse ==
    /\ \E a \in AppIds : rateCount[a] > 0
    /\ rateCount' = [a \in AppIds |-> 0]
    /\ UNCHANGED <<apps, nextKey, feedbacks, req, adm, limited>>

NewFeedback(r) ==
    [id |-> Len(feedbacks) + 1,
     appId |-> req[r].app,
     rating |-> req[r].payload.rating,
     category |-> req[r].payload.category,
     deviceInfo |-> ToJsonColumn(req[r].payload.deviceInfo),
     status |-> DefaultStatus]

ValidateAndInsert(r) ==
    /\ req[r].pc = "validate"
    /\ IF ~req[r].payload.wellFormed
       THEN /\ req' = [req EXCEPT ![r] = Respond(r, "BadRequest")]
            /\ UNCHANGED feedbacks
       ELSE IF FailingFields(req[r].payload) # {}
       THEN /\ req' = [req EXCEPT ![r] =
                         [Respond(r, "UnprocessableEntity") EXCEPT
                            !.fields = FailingFields(req[r].payload)]]
            /\ UNCHANGED feedbacks
       ELSE /\ feedbacks' = Append(feedbacks, NewFeedback(r))
            /\ req' = [req EXCEPT ![r] =
                         [Respond(r, "Created") EXCEPT !.id = Len(feedbacks) + 1]]
    /\ UNCHANGED <<apps, nextKey, rateCount, adm, limited>>

(***************************************************************************)
(* Status change from the dashboard: a single-row conditional update of    *)
(* feedbacks.status.  A request is issued while the administrator looks at *)
(* the record (seen is the status displayed then) and applied later.       *)
(***************************************************************************)
WorkflowEdgesOther ==
    { <<"pending", "in_progress">>, <<"in_progress", "resolved">>,
      <<"in_progress", "ignored">>, <<"resolved", "in_progress">>,
      <<"in_progress", "pending">> }
WorkflowEdges ==
    { <<"pending", "in_progress">>, <<"in_progress", "resolved">>,
      <<"in_progress", "ignored">> }

FastPathEdges == { <<"pending", "resolved">>, <<"pending", "ignored">> }

PermittedEdges == WorkflowEdges \cup FastPathEdges

ValidTransition(from, to) == <<from, to>> \in PermittedEdges

IdleAdmin == [pc |-> "idle", fid |-> 0, target |-> "none", seen |-> "none", resp |-> NoResponse]

RequestTransition(s, f, t) ==
    /\ adm[s].pc \in {"idle", "done"}
    /\ adm' = [adm EXCEPT ![s] =
                 [IdleAdmin EXCEPT !.pc = "requested", !.fid = f, !.target = t,
                                   !.seen = IF f <= Len(feedbacks) THEN feedbacks[f].status
                                            ELSE "none"]]
    /\ UNCHANGED <<apps, nextKey, feedbacks, rateCount, req, limited>>

SourceStatusOther(s) == adm[s].seen
SourceStatus(s) == feedbacks[adm[s].fid].status

ApplyTransition(s) ==
    /\ adm[s].pc = "requested"
    /\ IF adm[s].fid > Len(feedbacks)
       THEN /\ adm' = [adm EXCEPT ![s] = [adm[s] EXCEPT !.pc = "done", !.resp = "NotFound"]]
            /\ UNCHANGED feedbacks
       ELSE IF ValidTransition(SourceStatus(s), adm[s].target)
       THEN /\ feedbacks' = [feedbacks EXCEPT ![adm[s].fid] =
                               [feedbacks[adm[s].fid] EXCEPT !.status = adm[s].target]]
            /\ adm' = [adm EXCEPT ![s] = [adm[s] EXCEPT !.pc = "done", !.resp = "OK"]]
       ELSE /\ adm' = [adm EXCEPT ![s] = [adm[s] EXCEPT !.pc = "done", !.resp = "Conflict"]]
            /\ UNCHANGED feedbacks
    /\ UNCHANGED <<apps, nextKey, rateCount, req, limited>>

Init ==
    /\ apps = [a \in AppIds |-> NoKey]
    /\ nextKey = 1
    /\ feedbacks = <<>>
    /\ rateCount = [a \in AppIds |-> 0]
    /\ req = [r \in Requests |-> IdleRequest]
    /\ adm = [s \in AdminRequests |-> IdleAdmin]
    /\ limited = {}

(***************************************************************************)
(* Spec: the ingestion endpoint with every body and credential, one        *)
(* request at a time, while applications are registered and keys rotated.  *)
(***************************************************************************)
Next ==
    \/ \E a \in AppIds : CreateApp(a)
    \/ \E a \in AppIds : RotateKey(a)
    \/ \E k \in Keys \cup {NoKey}, p \in Payloads : Receive(1, k, p)
    \/ Authenticate(1)
    \/ RateLimit(1)
    \/ ValidateAndInsert(1)
    \/ WindowElapse

Spec == Init /\ [][Next]_vars

(***************************************************************************)
(* SpecConcurrent: concurrent requests of the registered applications.     *)
(***************************************************************************)
NextConcurrent ==
    \/ \E a \in AppIds : CreateApp(a)
    \/ \E r \in Requests, k \in Keys, p \in {SparseBody, BadRatingBody} : Receive(r, k, p)
    \/ \E r \in Requests : Authenticate(r)
    \/ \E r \in Requests : RateLimit(r)
    \/ \E r \in Requests : ValidateAndInsert(r)
    \/ WindowElapse

SpecConcurrent == Init /\ [][NextConcurrent]_vars

(***************************************************************************)
(* SpecTriage: concurrent status changes from the dashboard while one      *)
(* application submits feedback.                                           *)
(***************************************************************************)
NextTriage ==
    \/ CreateApp(1)
    \/ Receive(1, 1, SparseBody)
    \/ Authenticate(1)
    \/ RateLimit(1)
    \/ ValidateAndInsert(1)
    \/ WindowElapse
    \/ \E s \in AdminRequests, f \in 1..MaxFeedbacks, t \in Statuses :
          RequestTransition(s, f, t)
    \/ \E s \in AdminRequests : ApplyTransition(s)

SpecTriage == Init /\ [][NextTriage]_vars
(***************************************************************************)
(* Vocabulary of the properties.                                           *)
(***************************************************************************)
Leaves(r, stage) == req[r].pc = stage /\ req'[r].pc # stage

RatingOutOfRange(p) == p.rating # NoValue /\ (p.rating[1] < 1 \/ p.rating[1] > 5)
CategoryNotAccepted(p) ==
    p.category # NoValue /\ p.category[1] \notin {"bug", "feature", "general", "ui/ux"}
Offending(p) ==
    (IF RatingOutOfRange(p) THEN {"rating"} ELSE {})
    \cup (IF CategoryNotAccepted(p) THEN {"category"} ELSE {})

(* C1: a call that presents the key of a registered application, is within  *)
(* the rate limit and carries a valid body passes every stage, and its last *)
(* stage appends exactly one record: it references the application the key  *)
(* resolved to, has status pending and reads back the submitted values; no  *)
(* stage of the call adds or alters any other record.                       *)
C1_ValidSubmissionAddsOneRecord ==
    [][\A r \in Requests :
        LET p == req[r].payload IN
        /\ (Leaves(r, "auth") /\ req[r].key \in ActiveKeys) =>
              (/\ req'[r].pc = "rate"
               /\ apps[req'[r].app] = req[r].key
               /\ feedbacks' = feedbacks)
        /\ (Leaves(r, "rate") /\ rateCount[req[r].app] < Threshold) =>
              (req'[r].pc = "validate" /\ req'[r].app = req[r].app /\ feedbacks' = feedbacks)
        /\ (Leaves(r, "validate") /\ p.wellFormed /\ Offending(p) = {}) =>
              (/\ req'[r].resp = "Created"
               /\ Len(feedbacks') = Len(feedbacks) + 1
               /\ SubSeq(feedbacks', 1, Len(feedbacks)) = feedbacks
               /\ LET f == feedbacks'[Len(feedbacks')] IN
                    /\ f.appId = req[r].app
                    /\ f.status = "pending"
                    /\ f.rating = p.rating
                    /\ f.category = p.category
                    /\ FromJsonColumn(f.deviceInfo) = p.deviceInfo
                    /\ req'[r].id = f.id)
    ]_vars

C1_Witness ==
    \E r \in Requests :
        /\ req[r].pc = "done" /\ req[r].resp = "Created" /\ req[r].id = 2
        /\ req[r].payload = FullBody
        /\ Len(feedbacks) = 2
        /\ feedbacks[1].appId = 1 /\ feedbacks[2].appId = 2
        /\ FromJsonColumn(feedbacks[2].deviceInfo) = FullBody.deviceInfo

(* C2: a call whose key is missing, matches no application or was replaced  *)
(* by a rotation is answered Unauthorized at the authentication stage and   *)
(* creates no record; a rotation makes the old key resolve to no            *)
(* application in the very state it produces.                               *)
C2_InvalidCredentialUnauthorized ==
    [][/\ \A r \in Requests :
           /\ (Leaves(r, "auth") /\ req[r].key \notin ActiveKeys) =>
                 (/\ req'[r].pc = "done"
                  /\ req'[r].resp = "Unauthorized"
                  /\ req'[r].id = 0
                  /\ feedbacks' = feedbacks)
           /\ (req[r].pc = "done" /\ req[r].resp = "Unauthorized" /\ req'[r] # req[r]) =>
                 (req'[r].pc = "auth" /\ feedbacks' = feedbacks)
       /\ \A a \in AppIds :
           (apps[a] # NoKey /\ apps'[a] # apps[a]) =>
              (/\ \A b \in AppIds : apps'[b] # apps[a]
               /\ apps'[a] # NoKey)
    ]_vars

(* Requests of Spec are sequential and keys are issued in the order 1, 2,   *)
(* ...: a stored record shows that key 1 had been issued before the request *)
(* now answered was received, so key 1 was refused as a rotated-out key.    *)
C2_Witness ==
    \E r \in Requests :
        /\ req[r].pc = "done" /\ req[r].resp = "Unauthorized"
        /\ req[r].key = 1 /\ req[r].key \in RotatedOutKeys
        /\ Len(feedbacks) >= 1

(* C3 as stated: every authenticated call whose rating or category is       *)
(* present and not acceptable is answered UnprocessableEntity naming each   *)
(* offending field, and creates no record.                                  *)
C3_AuthenticatedInvalidAlwaysUnprocessable ==
    \A r \in Requests :
        (/\ req[r].pc = "done" /\ req[r].app # NoApp
         /\ req[r].payload.wellFormed /\ Offending(req[r].payload) # {}) =>
            (/\ req[r].resp = "UnprocessableEntity"
             /\ req[r].fields = Offending(req[r].payload)
             /\ req[r].id = 0)

(* C3 amended: every authenticated call that is within the rate limit and   *)
(* whose rating or category is present and not acceptable is answered       *)
(* UnprocessableEntity naming each offending field; the store is unchanged. *)
C3_InvalidFieldsUnprocessable ==
    [][\A r \in Requests :
        LET p == req[r].payload IN
        (Leaves(r, "validate") /\ p.wellFormed /\ Offending(p) # {}) =>
            (/\ req'[r].pc = "done"
             /\ req'[r].resp = "UnprocessableEntity"
             /\ req'[r].fields = Offending(p)
             /\ req'[r].id = 0
             /\ feedbacks' = feedbacks)
    ]_vars

C3_Witness ==
    \E r \in Requests :
        /\ req[r].pc = "done" /\ req[r].resp = "UnprocessableEntity"
        /\ req[r].payload = BadBothBody
        /\ req[r].fields = {"rating", "category"}

C8_AuthThenRateLimitThenValidation ==
    [][\A r \in Requests :
        /\ (Leaves(r, "auth") /\ req[r].key \notin ActiveKeys) =>
              (req'[r].resp = "Unauthorized" /\ rateCount' = rateCount)
        /\ (Leaves(r, "auth") /\ req[r].key \in ActiveKeys) =>
              (req'[r].pc = "rate" /\ rateCount' = rateCount)
        /\ (Leaves(r, "rate") /\ rateCount[req[r].app] >= Threshold) =>
              (req'[r].pc = "done" /\ req'[r].resp = "TooManyRequests")
        /\ (req'[r].pc = "done" /\ req[r].pc # "done"
              /\ req'[r].resp \in {"BadRequest", "UnprocessableEntity", "Created"}) =>
              req[r].pc = "validate"
        /\ (req'[r].pc = "validate" /\ req[r].pc # "validate") =>
              (req[r].pc = "rate" /\ rateCount[req[r].app] < Threshold)
    ]_vars

C8_Witness ==
    \E r \in Requests :
        /\ req[r].pc = "done" /\ req[r].resp = "TooManyRequests"
        /\ req[r].payload \in {BadBothBody, MalformedBody}

(* C9: the requests of one application that pass the limit within one       *)
(* window never exceed the threshold: the limiter decides on the count of   *)
(* the moment and counts the pass in the same step, one request per step,   *)
(* whatever the interleaving of concurrent requests.                        *)
C9_AtMostThresholdPassPerWindow ==
    /\ [](\A a \in AppIds : rateCount[a] <= Threshold)
    /\ [][\A r \in Requests :
            Leaves(r, "rate") =>
               LET a == req[r].app IN
               /\ (req'[r].pc = "validate") <=> (rateCount[a] < Threshold)
               /\ (req'[r].pc = "validate") => (rateCount'[a] = rateCount[a] + 1)
               /\ (req'[r].pc # "validate") =>
                     (req'[r].resp = "TooManyRequests" /\ rateCount' = rateCount)
               /\ \A q \in Requests \ {r} : req'[q] = req[q]
       ]_vars

C9_Witness ==
    \E r, q \in Requests :
        /\ r # q
        /\ req[r].pc = "validate" /\ req[q].pc = "rate"
        /\ req[r].app = req[q].app
        /\ rateCount[req[r].app] = Threshold

FiveEdges ==
    { <<"pending", "in_progress">>, <<"in_progress", "resolved">>,
      <<"in_progress", "ignored">>, <<"pending", "resolved">>,
      <<"pending", "ignored">> }

Applies(s) == adm[s].pc = "requested" /\ adm'[s].pc = "done" /\ adm[s].fid <= Len(feedbacks)

(* C5: a status change requested on a record that is resolved or ignored is *)
(* answered Conflict, whatever its target, and leaves the store unchanged;  *)
(* the status of a resolved or ignored record never changes again.          *)
C5_TerminalStatusIsFinal ==
    [][/\ \A s \in AdminRequests :
           (Applies(s) /\ feedbacks[adm[s].fid].status \in {"resolved", "ignored"}) =>
              (adm'[s].resp = "Conflict" /\ feedbacks' = feedbacks)
       /\ \A f \in 1..Len(feedbacks) :
           feedbacks[f].status \in {"resolved", "ignored"} =>
              feedbacks'[f].status = feedbacks[f].status
    ]_vars

C5_Witness ==
    \E s \in AdminRequests :
        /\ adm[s].pc = "done" /\ adm[s].resp = "Conflict"
        /\ adm[s].seen = "resolved" /\ adm[s].target = "in_progress"
        /\ feedbacks[adm[s].fid].status = "resolved"

(* C6: every change of a record's status is one of the five permitted edges *)
(* and is made by an accepted status change of the dashboard aimed at that  *)
(* record; a requested change that is not a permitted edge is answered      *)
(* Conflict and changes nothing; a step of the ingestion endpoint changes   *)
(* no existing record, and a new record starts as pending.                  *)
C6_OnlyPermittedEdgesByAdmin ==
    [][/\ \A f \in 1..Len(feedbacks) :
           feedbacks'[f].status # feedbacks[f].status =>
              (/\ <<feedbacks[f].status, feedbacks'[f].status>> \in FiveEdges
               /\ req' = req
               /\ \E s \in AdminRequests :
                     /\ Applies(s) /\ adm'[s].resp = "OK"
                     /\ adm[s].fid = f /\ adm[s].target = feedbacks'[f].status)
       /\ \A s \in AdminRequests :
           (Applies(s) /\ <<feedbacks[adm[s].fid].status, adm[s].target>> \notin FiveEdges) =>
              (adm'[s].resp = "Conflict" /\ feedbacks' = feedbacks)
       /\ req' # req =>
              (/\ adm' = adm
               /\ \A f \in 1..Len(feedbacks) : feedbacks'[f] = feedbacks[f]
               /\ Len(feedbacks') > Len(feedbacks) =>
                     feedbacks'[Len(feedbacks')].status = "pending")
    ]_vars

C6_Witness ==
    /\ \E s \in AdminRequests :
          /\ adm[s].pc = "done" /\ adm[s].resp = "Conflict"
          /\ adm[s].seen = "in_progress" /\ adm[s].target = "pending"
          /\ feedbacks[adm[s].fid].status = "in_progress"
    /\ \E r \in Requests :
          /\ req[r].pc = "done" /\ req[r].resp = "Created" /\ req[r].id = 2
          /\ feedbacks[1].status # "pending"

(* C10: a status change is decided against the status stored at the moment  *)
(* it is applied, not the one displayed when it was requested: it is        *)
(* accepted, and written, exactly when the edge from the stored status is   *)
(* permitted, and otherwise answered Conflict with the store unchanged; so  *)
(* of concurrent changes of one record to resolved and to ignored at most   *)
(* one is accepted.                                                         *)
C10_ConcurrentTransitionsSerialized ==
    /\ [](\A s, t \in AdminRequests :
            (/\ s # t
             /\ adm[s].pc = "done" /\ adm[t].pc = "done"
             /\ adm[s].fid = adm[t].fid
             /\ adm[s].target \in {"resolved", "ignored"}
             /\ adm[t].target \in {"resolved", "ignored"}) =>
                ~(adm[s].resp = "OK" /\ adm[t].resp = "OK"))
    /\ [][\A s \in AdminRequests :
            Applies(s) =>
               LET f == adm[s].fid IN
               IF <<feedbacks[f].status, adm[s].target>> \in FiveEdges
               THEN /\ adm'[s].resp = "OK"
                    /\ feedbacks' = [feedbacks EXCEPT ![f].status = adm[s].target]
               ELSE /\ adm'[s].resp = "Conflict"
                    /\ feedbacks' = feedbacks
       ]_vars

C10_Witness ==
    \E s, t \in AdminRequests :
        /\ s # t
        /\ adm[s].pc = "done" /\ adm[t].pc = "done"
        /\ adm[s].fid = adm[t].fid
        /\ adm[s].seen = "pending" /\ adm[t].seen = "pending"
        /\ adm[s].target = "resolved" /\ adm[t].target = "ignored"
        /\ {adm[s].resp, adm[t].resp} = {"OK", "Conflict"}
=============================================================================
